---- MODULE Spec2Model ----
(***************************************************************************)
(* Marketplace canister: product catalog, pending orders (reservations),   *)
(* persisted (completed) orders, expiry timers and the asynchronous        *)
(* completePurchase handler that verifies a payment on the ledger.         *)
(*                                                                         *)
(* Every handler runs atomically up to its `await`; completePurchase is    *)
(* split at `await ic.call(icpCanister.query_blocks, ...)` into the part   *)
(* that sends the query and the part that runs when the answer arrives.    *)
(* The ledger is an external canister: its answer is an input of the       *)
(* resuming step.                                                          *)
(***************************************************************************)
EXTENDS Integers, FiniteSets, Sequences, Bags, TLC

VARIABLES
    productsStorage,   \* StableBTreeMap(0, text, Product): id -> Product
    persistedOrders,   \* StableBTreeMap(1, Principal, Order): caller -> Order
    pendingOrders,     \* StableBTreeMap(2, nat64, Order): memo -> Order
    timers,            \* timers armed by ic.setTimer and not yet run (a bag)
    calls,             \* number of completePurchase calls suspended at the ledger query
    now,               \* ic.time(), in seconds
    uuidCount,         \* number of ids uuidv4() has handed out
    listings,          \* how many products the sellers list in this run
    timerCount,        \* number of timers ic.setTimer has handed out
    ret,               \* what the message now ending returns (NoReturn between messages)
    createdAt,         \* history: memo -> ic.time() when its pending order was written
    reservedPrice      \* history: memo -> the product's price when its pending
                       \* order was written

vars == <<productsStorage, persistedOrders, pendingOrders, timers, calls, now,
          uuidCount, listings, timerCount, ret, createdAt, reservedPrice>>

stores == <<productsStorage, persistedOrders, pendingOrders>>
history == <<createdAt, reservedPrice>>

-----------------------------------------------------------------------------
(* Bounds of the model *)

MaxTime == 120        \* ic.time() stops advancing here
MaxOrders == 2        \* createOrder calls that write a reservation
MaxCalls == 2         \* completePurchase calls suspended at the same time

(* Program constant *)
ORDER_RESERVATION_PERIOD == 120

(* The clock of the model advances by half a reservation period. *)
ClockStep == ORDER_RESERVATION_PERIOD \div 2

-----------------------------------------------------------------------------
(* Input domains *)

Principals == {"seller", "buyer"}
Sellers == {"seller"}                   \* the principals that list products
Buyers == {"buyer"}                     \* the principals that order and pay
IdSeq == <<"p1", "p2">>                 \* the ids uuidv4() returns, in order
SoldAmounts == {0, 1}                   \* the soldAmount values updateProduct is given
Amounts == {999, 1000}
BlockNumbers == {41, 42}
Tokens == {0, 1}                        \* the values hash() takes on correlation ids
Addresses == {"acct_seller", "acct_buyer", "acct_other"}   \* accounts of the ledger

-----------------------------------------------------------------------------
(* Azle's Opt, Result and Variant values *)

None == [None |-> "null"]
Some(x) == [Some |-> x]
IsNone(opt) == "None" \in DOMAIN opt
IsSome(opt) == "Some" \in DOMAIN opt

Ok(x) == [Ok |-> x]
Err(m) == [Err |-> m]
IsOk(r) == "Ok" \in DOMAIN r
IsErr(r) == "Err" \in DOMAIN r
NotFound == [NotFound |-> "not found"]
InvalidPayload == [InvalidPayload |-> "invalid payload"]
IsNotFound(r) == IsErr(r) /\ "NotFound" \in DOMAIN r.Err
\* an uncaught exception: the call is rejected, nothing is returned
Thrown == [Thrown |-> "error"]
IsThrown(r) == "Thrown" \in DOMAIN r

PaymentPending == [PaymentPending |-> "PAYMENT_PENDING"]
Completed == [Completed |-> "COMPLETED"]

-----------------------------------------------------------------------------
(* StableBTreeMap: a map is a function on the keys it holds *)

MapGet(map, key) == IF key \in DOMAIN map THEN Some(map[key]) ELSE None
MapInsert(map, key, value) ==
    [k \in DOMAIN map \cup {key} |-> IF k = key THEN value ELSE map[k]]
MapRemove(map, key) == [k \in DOMAIN map \ {key} |-> map[k]]
EmptyMap == [k \in {} |-> None]

-----------------------------------------------------------------------------
(* Records *)

\* Product, without the text fields no handler reads (title, description,
\* location, attachmentURL)
MakeProduct(id, price, seller, soldAmount) ==
    [id |-> id, price |-> price, seller |-> seller, soldAmount |-> soldAmount]

ProductPayloads == [price : Amounts]
\* the ids the handlers are called with: those uuidv4() issues in this run
KnownIds == {IdSeq[i] : i \in 1..listings}
ProductRecords ==
    [id : KnownIds, price : Amounts, seller : Sellers, soldAmount : SoldAmounts]

-----------------------------------------------------------------------------
(* hash(): BigInt(Math.abs(hashCode().value(input))).                      *)
(* hashCode().value is a 32-bit hash: it is many-to-one and signed.  The   *)
(* model keeps both traits on its small domains: distinct inputs may get   *)
(* the same code, and Math.abs merges a code with its negative.            *)

Abs(n) == IF n < 0 THEN -n ELSE n

ProductCode(id) == CASE id = "p1" -> 2 [] id = "p2" -> 0 [] OTHER -> 1
PrincipalCode(p) == CASE p = "seller" -> 0 [] p = "buyer" -> 1
AddressCode(a) ==
    CASE a = "acct_seller" -> 7 [] a = "acct_buyer" -> -11 [] a = "acct_other" -> -7

Bytes(address) == [kind |-> "bytes", address |-> address]
Undefined == [kind |-> "undefined"]
Text(productId, caller, time) ==
    [kind |-> "text", productId |-> productId, caller |-> caller, time |-> time]

hashCodeValue(input) ==
    CASE input.kind = "undefined" -> 0
      [] input.kind = "bytes" -> AddressCode(input.address)
      [] input.kind = "text" ->
            ((ProductCode(input.productId) + PrincipalCode(input.caller)
                + (input.time \div ClockStep)) % 3) - 1

hash(input) == Abs(hashCodeValue(input))

\* `${productId}_${ic.caller().toText()}_${ic.time()}`
generateCorrelationId(productId, caller, time) == hash(Text(productId, caller, time))

binaryAddressFromPrincipal(principal) ==
    CASE principal = "seller" -> "acct_seller" [] principal = "buyer" -> "acct_buyer"

-----------------------------------------------------------------------------
(* The ledger's answers to query_blocks({start: block, length: 1}) *)

Transfer(from, to, amount) == [Transfer |-> [from |-> from, to |-> to, amount |-> amount]]

Rejected == [kind |-> "rejected"]           \* the call to the ledger fails
NoData == [kind |-> "null"]                 \* an answer without a block list
BlockList(bs) == [kind |-> "blocks", blocks |-> bs]

\* every answer to a query for one block: no answer, no list, no block, or
\* a block with no operation, an operation that is no transfer, or a
\* transfer between any two accounts
Burn == [Burn |-> "burn"]
Operations ==
    {None, Some(Burn)}
      \cup {Some(Transfer(f, t, a)) : f \in Addresses, t \in Addresses, a \in Amounts}
LedgerBlocks == [memo : Tokens, operation : Operations]
Responses == {Rejected, NoData, BlockList(<<>>)} \cup {BlockList(<<b>>) : b \in LedgerBlocks}

TransferFrom(operation) ==
    IF "Transfer" \in DOMAIN operation THEN Bytes(operation.Transfer.from) ELSE Undefined
TransferTo(operation) ==
    IF "Transfer" \in DOMAIN operation THEN Bytes(operation.Transfer.to) ELSE Undefined
TransferAmount(operation) ==
    IF "Transfer" \in DOMAIN operation THEN Some(operation.Transfer.amount) ELSE None

\* faulty variant: the sender and the receiver of the transfer are taken
\* for one another
isTransactionValid_SwappedEnds(block, caller, receiver, amount, memo) ==
    IF IsNone(block.operation) THEN FALSE
    ELSE LET operation == block.operation.Some
             senderAddress == binaryAddressFromPrincipal(caller)
             receiverAddress == binaryAddressFromPrincipal(receiver)
         IN  /\ block.memo = memo
             /\ hash(Bytes(senderAddress)) = hash(TransferTo(operation))
             /\ hash(Bytes(receiverAddress)) = hash(TransferFrom(operation))
             /\ Some(amount) = TransferAmount(operation)

isTransactionValid(block, caller, receiver, amount, memo) ==
    IF IsNone(block.operation) THEN FALSE
    ELSE LET operation == block.operation.Some
             senderAddress == binaryAddressFromPrincipal(caller)
             receiverAddress == binaryAddressFromPrincipal(receiver)
         IN  /\ block.memo = memo
             /\ hash(Bytes(senderAddress)) = hash(TransferFrom(operation))
             /\ hash(Bytes(receiverAddress)) = hash(TransferTo(operation))
             /\ Some(amount) = TransferAmount(operation)

\* faulty variant: no block is ever found
FindTransaction_None(blocks, caller, receiver, amount, memo) == None

\* blockData.blocks.find(isTransactionValid): the block found, or None
FindTransaction(blocks, caller, receiver, amount, memo) ==
    LET hits == {i \in 1..Len(blocks) :
                    isTransactionValid(blocks[i], caller, receiver, amount, memo)}
    IN  IF hits = {} THEN None
        ELSE Some(blocks[CHOOSE i \in hits : \A j \in hits : i <= j])

\* verifyPaymentInternal once the ledger has answered with `response`
\* (a rejected call throws instead: see the handlers)
verifyPaymentInternal(caller, receiver, amount, memo, response) ==
    IF response.kind # "blocks" \/ Len(response.blocks) = 0 THEN FALSE
    ELSE IsSome(FindTransaction(response.blocks, caller, receiver, amount, memo))

\* the validation helpers return true for every input (the source ends
\* inside isValidMemo; it is taken to return true like the three before it)
isValidUUID(uuid) == TRUE
isValidPrincipal(principal) == TRUE
isValidBlock(block) == TRUE
isValidMemo(memo) == TRUE

-----------------------------------------------------------------------------
(* Initial state: the three maps are empty, nothing is armed or in flight *)

NoReturn == [op |-> "none"]
Awaiting == [op |-> "await"]

\* The canister runs one message at a time: a message starts when the one
\* before it has ended.  (A completePurchase suspended at its await has
\* ended its first message.)
Idle == ret \in {NoReturn, Awaiting}

\* the state after construction, in a run in which n products get listed
Start(n) ==
    /\ productsStorage = EmptyMap
    /\ persistedOrders = EmptyMap
    /\ pendingOrders = EmptyMap
    /\ timers = EmptyBag
    /\ calls = 0
    /\ now = 0
    /\ uuidCount = 0
    /\ listings = n
    /\ timerCount = 0
    /\ ret = NoReturn
    /\ createdAt = EmptyMap
    /\ reservedPrice = EmptyMap

Init == Start(1)

-----------------------------------------------------------------------------
(* Catalog handlers *)

\* uuidv4(): an id no product has had before
uuidv4 == IdSeq[uuidCount + 1]

addProduct(caller, payload) ==
    /\ Idle
    /\ uuidCount < listings
    /\ LET product == MakeProduct(uuidv4, payload.price, caller, 0)
       IN  /\ productsStorage' = MapInsert(productsStorage, product.id, product)
           /\ ret' = [op |-> "addProduct", caller |-> caller, result |-> Ok(product)]
    /\ uuidCount' = uuidCount + 1
    /\ UNCHANGED <<persistedOrders, pendingOrders, timers, calls, now, listings,
                   timerCount, history>>

updateProduct(caller, payload) ==
    /\ Idle
    /\ LET productOpt == MapGet(productsStorage, payload.id)
       IN  IF IsNone(productOpt)
           THEN /\ ret' = [op |-> "updateProduct", caller |-> caller,
                           result |-> Err(NotFound)]
                /\ UNCHANGED productsStorage
           ELSE IF productOpt.Some.seller # caller
           THEN /\ ret' = [op |-> "updateProduct", caller |-> caller,
                           result |-> Err(NotFound)]
                /\ UNCHANGED productsStorage
           ELSE /\ productsStorage' =
                        MapInsert(productsStorage, productOpt.Some.id, payload)
                /\ ret' = [op |-> "updateProduct", caller |-> caller,
                           result |-> Ok(payload)]
    /\ UNCHANGED <<persistedOrders, pendingOrders, timers, calls, now, uuidCount,
                   listings, timerCount, history>>

deleteProduct(caller, id) ==
    /\ Idle
    /\ LET productOpt == MapGet(productsStorage, id)
       IN  IF IsNone(productOpt)
           THEN /\ ret' = [op |-> "deleteProduct", caller |-> caller,
                           result |-> Err(NotFound)]
                /\ UNCHANGED productsStorage
           ELSE IF productOpt.Some.seller # caller
           THEN /\ ret' = [op |-> "deleteProduct", caller |-> caller,
                           result |-> Err(NotFound)]
                /\ UNCHANGED productsStorage
           ELSE /\ productsStorage' = MapRemove(productsStorage, id)
                /\ ret' = [op |-> "deleteProduct", caller |-> caller,
                           result |-> Ok(productOpt.Some.id)]
    /\ UNCHANGED <<persistedOrders, pendingOrders, timers, calls, now, uuidCount,
                   listings, timerCount, history>>

-----------------------------------------------------------------------------
(* createOrder *)

\* a faulty variant: the order is written as completed already
NewOrder_Completed(product, memo) ==
    [productId |-> product.id,
     price |-> product.price,
     status |-> Completed,
     seller |-> product.seller,
     paid_at_block |-> None,
     memo |-> memo]

\* the order createOrder builds from the product it found
NewOrder(product, memo) ==
    [productId |-> product.id,
     price |-> product.price,
     status |-> PaymentPending,
     seller |-> product.seller,
     paid_at_block |-> None,
     memo |-> memo]

\* faulty variant: the delay is dropped, the timer is due at once
ArmedTimer_Immediate(memo, delay) == [memo |-> memo, at |-> now]

\* discardByTimeout(memo, delay): ic.setTimer(delay, callback)
ArmedTimer(memo, delay) == [memo |-> memo, at |-> now + delay]

\* faulty variant: the timer is armed before the product is looked up, so
\* a call for a product that is not listed leaves a timer behind
createOrder_TimerFirst(caller, id) ==
    /\ Idle
    /\ ~IsSome(MapGet(productsStorage, id))
    /\ timerCount < MaxOrders
    /\ timers' = timers (+)
                   SetToBag({ArmedTimer(generateCorrelationId(id, caller, now),
                                        ORDER_RESERVATION_PERIOD)})
    /\ timerCount' = timerCount + 1
    /\ ret' = [op |-> "createOrder", caller |-> caller, id |-> id,
               result |-> Err(NotFound)]
    /\ UNCHANGED <<stores, calls, now, uuidCount, listings, history>>

createOrder(caller, id) ==
    LET productOpt == MapGet(productsStorage, id)
    IN  /\ Idle
        /\ IF IsNone(productOpt)
           THEN /\ ret' = [op |-> "createOrder", caller |-> caller, id |-> id,
                           result |-> Err(NotFound)]
                /\ UNCHANGED <<stores, timers, calls, now, uuidCount, listings, timerCount, history>>
           ELSE IF ~isValidUUID(id)
           THEN /\ ret' = [op |-> "createOrder", caller |-> caller, id |-> id,
                           result |-> Err(InvalidPayload)]
                /\ UNCHANGED <<stores, timers, calls, now, uuidCount, listings, timerCount, history>>
           ELSE LET order == NewOrder(productOpt.Some,
                                      generateCorrelationId(id, caller, now))
                IN  /\ timerCount < MaxOrders
                    /\ pendingOrders' = MapInsert(pendingOrders, order.memo, order)
                    /\ timers' = timers (+)
                                   SetToBag({ArmedTimer(order.memo, ORDER_RESERVATION_PERIOD)})
                    /\ timerCount' = timerCount + 1
                    /\ createdAt' = MapInsert(createdAt, order.memo, now)
                    /\ reservedPrice' = MapInsert(reservedPrice, order.memo,
                                                      productOpt.Some.price)
                    /\ ret' = [op |-> "createOrder", caller |-> caller, id |-> id,
                               result |-> Ok(order)]
                    /\ UNCHANGED <<productsStorage, persistedOrders, calls, now, uuidCount, listings>>

-----------------------------------------------------------------------------
(* The callback of the timer discardByTimeout arms.  It runs in a message  *)
(* of its own, at some time not before the timer is due.                   *)

\* a faulty variant: the callback discards every pending order
discardByTimeoutCallback_Clear(timer) ==
    /\ Idle
    /\ BagIn(timer, timers)
    /\ now >= timer.at
    /\ timers' = timers (-) SetToBag({timer})
    /\ pendingOrders' = EmptyMap
    /\ createdAt' = EmptyMap
    /\ reservedPrice' = EmptyMap
    /\ ret' = [op |-> "timer", memo |-> timer.memo,
               removed |-> MapGet(pendingOrders, timer.memo)]
    /\ UNCHANGED <<productsStorage, persistedOrders, calls, now, uuidCount, listings, timerCount>>

\* a faulty variant: the callback runs and leaves the order where it is
discardByTimeoutCallback_Keep(timer) ==
    /\ Idle
    /\ BagIn(timer, timers)
    /\ now >= timer.at
    /\ timers' = timers (-) SetToBag({timer})
    /\ ret' = [op |-> "timer", memo |-> timer.memo, removed |-> None]
    /\ UNCHANGED <<stores, calls, now, uuidCount, listings, timerCount, history>>

discardByTimeoutCallback(timer) ==
    /\ Idle
    /\ BagIn(timer, timers)
    /\ now >= timer.at
    /\ timers' = timers (-) SetToBag({timer})
    /\ LET order == MapGet(pendingOrders, timer.memo)
       IN  /\ pendingOrders' = MapRemove(pendingOrders, timer.memo)
           /\ createdAt' = MapRemove(createdAt, timer.memo)
           /\ reservedPrice' = MapRemove(reservedPrice, timer.memo)
           /\ ret' = [op |-> "timer", memo |-> timer.memo, removed |-> order]
    /\ UNCHANGED <<productsStorage, persistedOrders, calls, now, uuidCount, listings, timerCount>>

\* ic.time() advances, between messages, up to a limit
Advance(limit) ==
    /\ Idle
    /\ now + ClockStep <= limit
    /\ now' = now + ClockStep
    /\ ret' = NoReturn
    /\ UNCHANGED <<stores, timers, calls, uuidCount, listings, timerCount, history>>

Tick == Advance(MaxTime)

\* the time by which every timer armed up to MaxTime is due
ClockEnd == MaxTime + ORDER_RESERVATION_PERIOD
TickOn == Advance(ClockEnd)

-----------------------------------------------------------------------------
(* completePurchase: up to the await, then from the ledger's answer on *)

\* The arguments of a call and its caller.  A suspended call keeps them in
\* its closure and nothing reads them before the ledger has answered, so the
\* state holds the number of suspended calls and the resuming step draws
\* the arguments.
CallRecords ==
    [caller : Buyers, seller : Principals, id : KnownIds, price : Amounts,
     block : BlockNumbers, memo : Tokens]

\* faulty variant: the price is read from the catalog at completion
UpdatedOrder_CurrentPrice(order, block) ==
    [order EXCEPT !.status = Completed, !.paid_at_block = Some(block),
                  !.price = IF order.productId \in DOMAIN productsStorage
                            THEN productsStorage[order.productId].price ELSE @]

\* faulty variant: the block is not recorded
UpdatedOrder_NoBlock(order, block) == [order EXCEPT !.status = Completed]

\* updatedOrder: the pending order with its status and block set
UpdatedOrder(order, block) ==
    [order EXCEPT !.status = Completed, !.paid_at_block = Some(block)]

\* faulty variant: the entry is read and left in the map
TakePending_Keep(memo) == pendingOrders

\* pendingOrders.remove(memo): the map once the entry is taken out
TakePending(memo) == MapRemove(pendingOrders, memo)

\* faulty variant: the sale is counted twice
SoldOneMore_Twice(product) == [product EXCEPT !.soldAmount = @ + 2]

\* product.soldAmount += 1n
SoldOneMore(product) == [product EXCEPT !.soldAmount = @ + 1]

\* a ledger answer holding exactly the transfer the call's arguments describe:
\* caller as sender, seller as receiver, the amount, the token as memo
PaymentBlock(caller, receiver, amount, memo) ==
    [memo |-> memo,
     operation |-> Some(Transfer(binaryAddressFromPrincipal(caller),
                                 binaryAddressFromPrincipal(receiver), amount))]
MatchingAnswer(call) ==
    BlockList(<<PaymentBlock(call.caller, call.seller, call.price, call.memo)>>)

\* The answers a call is run against: every kind of failure, the matching
\* transfer, and the same transfer with another amount.
OtherAmount(amount) == CHOOSE a \in Amounts : a # amount
LedgerAnswers(call) ==
    {Rejected, NoData, BlockList(<<>>),
     BlockList(<<[memo |-> call.memo, operation |-> None]>>),
     MatchingAnswer(call),
     BlockList(<<PaymentBlock(call.caller, call.seller, OtherAmount(call.price),
                              call.memo)>>)}

\* what completePurchase returns, with the arguments it was called with,
\* whether the ledger's answer was the matching transfer and what
\* verifyPaymentInternal made of it
Returned(call, response, paymentVerified, result) ==
    [op |-> "completePurchase", caller |-> call.caller, id |-> call.id,
     memo |-> call.memo, block |-> call.block,
     matching |-> (response = MatchingAnswer(call)),
     paymentVerified |-> paymentVerified, result |-> result]

\* the same, the seller and amount it was called with and the ledger's
\* answer kept with the result
ReturnedTraced(call, response, paymentVerified, result) ==
    [op |-> "completePurchase", caller |-> call.caller, id |-> call.id,
     memo |-> call.memo, block |-> call.block,
     seller |-> call.seller, price |-> call.price, response |-> response,
     matching |-> (response = MatchingAnswer(call)),
     paymentVerified |-> paymentVerified, result |-> result]

completePurchaseCall(call) ==
    /\ Idle
    /\ calls < MaxCalls
    /\ IF ~isValidPrincipal(call.seller) \/ ~isValidUUID(call.id)
            \/ ~isValidBlock(call.block) \/ ~isValidMemo(call.memo)
       THEN /\ ret' = Returned(call, NoData, FALSE, Err(InvalidPayload))
            /\ UNCHANGED calls
       ELSE /\ calls' = calls + 1
            /\ ret' = Awaiting
    /\ UNCHANGED <<stores, timers, now, uuidCount, listings, timerCount, history>>

\* the handler from the answer of the ledger on; traced tells which of the
\* two records it returns
completePurchaseAfterAwait(call, response, traced) ==
    LET Return(c, r, paymentVerified, result) ==
            IF traced THEN ReturnedTraced(c, r, paymentVerified, result)
            ELSE Returned(c, r, paymentVerified, result)
    IN
    /\ Idle
    /\ calls > 0
    /\ calls' = calls - 1
    /\ UNCHANGED <<timers, now, uuidCount, listings, timerCount>>
    /\ IF response = Rejected
       THEN \* the awaited call throws; nothing catches it
            /\ ret' = Return(call, response, FALSE, Thrown)
            /\ UNCHANGED <<stores, history>>
       ELSE
       LET paymentVerified ==
               verifyPaymentInternal(call.caller, call.seller, call.price, call.memo,
                                     response)
           pendingOrderOpt == MapGet(pendingOrders, call.memo)
       IN  IF ~paymentVerified
           THEN /\ ret' = Return(call, response, FALSE, Err(NotFound))
                /\ UNCHANGED <<stores, history>>
           ELSE IF IsNone(pendingOrderOpt)
           THEN \* pendingOrders.remove(memo) found nothing
                /\ ret' = Return(call, response, TRUE, Err(NotFound))
                /\ UNCHANGED <<stores, history>>
           ELSE
           LET order == pendingOrderOpt.Some
               updatedOrder == UpdatedOrder(order, call.block)
               productOpt == MapGet(productsStorage, call.id)
           IN  IF IsNone(productOpt)
               THEN \* throw Error(`product with id=${id} not found`), after the
                    \* entry was removed.  The handler undoes nothing; whether
                    \* the removal outlives the failed call is up to the host
                    \* (it may revert what a failed message wrote).
                    /\ ret' = Return(call, response, TRUE, Thrown)
                    /\ UNCHANGED <<productsStorage, persistedOrders>>
                    /\ \/ /\ pendingOrders' = TakePending(call.memo)
                          /\ createdAt' = MapRemove(createdAt, call.memo)
                          /\ reservedPrice' = MapRemove(reservedPrice, call.memo)
                       \/ UNCHANGED <<pendingOrders, history>>
               ELSE LET product == SoldOneMore(productOpt.Some)
                    IN  /\ pendingOrders' = TakePending(call.memo)
                        /\ createdAt' = MapRemove(createdAt, call.memo)
                        /\ reservedPrice' = MapRemove(reservedPrice, call.memo)
                        /\ productsStorage' =
                              MapInsert(productsStorage, product.id, product)
                        /\ persistedOrders' =
                              MapInsert(persistedOrders, call.caller, updatedOrder)
                        /\ ret' = Return(call, response, TRUE, Ok(updatedOrder))

completePurchaseResume(call, response) ==
    completePurchaseAfterAwait(call, response, FALSE)

completePurchaseTraced(call, response) ==
    completePurchaseAfterAwait(call, response, TRUE)

-----------------------------------------------------------------------------
(* verifyPayment: a query; it awaits the ledger and returns what           *)
(* verifyPaymentInternal makes of the answer                               *)

QueryRecords ==
    [caller : Buyers, receiver : Principals, amount : Amounts, block : BlockNumbers,
     memo : Tokens]
QueryAnswers(query) ==
    LedgerAnswers([caller |-> query.caller, seller |-> query.receiver,
                   price |-> query.amount, memo |-> query.memo])

\* a faulty variant: true for whatever the ledger answers
VerifyPaymentResult_AnyAnswer(query, response) ==
    IF response = Rejected THEN Thrown ELSE TRUE

\* what the query returns: the awaited ledger call throws when rejected
VerifyPaymentResult(query, response) ==
    IF response = Rejected THEN Thrown
    ELSE verifyPaymentInternal(query.caller, query.receiver, query.amount, query.memo,
                               response)

verifyPayment(query, response) ==
    /\ Idle
    /\ ret' = [op |-> "verifyPayment", result |-> VerifyPaymentResult(query, response)]
    /\ UNCHANGED <<stores, timers, calls, now, uuidCount, listings, timerCount, history>>

\* the same query, its arguments and the ledger's answer kept with the result
verifyPaymentTraced(query, response) ==
    /\ Idle
    /\ ret' = [op |-> "verifyPayment", query |-> query, response |-> response,
               result |-> VerifyPaymentResult(query, response)]
    /\ UNCHANGED <<stores, timers, calls, now, uuidCount, listings, timerCount, history>>

-----------------------------------------------------------------------------
(* The message ends: what it returned goes to its caller *)

Reply ==
    /\ ~Idle
    /\ ret' = NoReturn
    /\ UNCHANGED <<stores, timers, calls, now, uuidCount, listings, timerCount, history>>

-----------------------------------------------------------------------------

Next ==
    \/ \E caller \in Sellers, payload \in ProductPayloads : addProduct(caller, payload)
    \/ \E caller \in Principals, payload \in ProductRecords : updateProduct(caller, payload)
    \/ \E caller \in Principals, id \in KnownIds : deleteProduct(caller, id)
    \/ \E caller \in Buyers, id \in KnownIds : createOrder(caller, id)
    \/ \E call \in CallRecords : completePurchaseCall(call)
    \/ \E call \in CallRecords : \E response \in LedgerAnswers(call) :
            completePurchaseResume(call, response)
    \/ \E query \in QueryRecords : \E response \in QueryAnswers(query) :
            verifyPayment(query, response)
    \/ \E timer \in BagToSet(timers) : discardByTimeoutCallback(timer)
    \/ Tick
    \/ Reply

Spec == Init /\ [][Next]_vars

-----------------------------------------------------------------------------
(* Two products: the catalog, the orders and their completion, at one      *)
(* ic.time()                                                               *)

InitTwo == Start(2)

NextTwo ==
    \/ \E caller \in Sellers, payload \in ProductPayloads : addProduct(caller, payload)
    \/ \E caller \in Principals, payload \in ProductRecords : updateProduct(caller, payload)
    \/ \E caller \in Buyers, id \in KnownIds : createOrder(caller, id)
    \/ \E call \in CallRecords : completePurchaseCall(call)
    \/ \E call \in CallRecords : \E response \in LedgerAnswers(call) :
            completePurchaseResume(call, response)
    \/ Reply

SpecTwo == InitTwo /\ [][NextTwo]_vars

-----------------------------------------------------------------------------
(* Orders created up to MaxTime, with the clock running on until the last  *)
(* of their timers is due.  The host runs a due timer's callback between    *)
(* messages, its clock advances, and a message that has returned ends.     *)

NextLive ==
    \/ \E caller \in Sellers, payload \in ProductPayloads : addProduct(caller, payload)
    \/ \E caller \in Buyers, id \in KnownIds : now <= MaxTime /\ createOrder(caller, id)
    \/ \E call \in CallRecords : completePurchaseCall(call)
    \/ \E call \in CallRecords : \E response \in LedgerAnswers(call) :
            completePurchaseResume(call, response)
    \/ \E timer \in BagToSet(timers) : discardByTimeoutCallback(timer)
    \/ TickOn
    \/ Reply

TimersFire == \E timer \in BagToSet(timers) : discardByTimeoutCallback(timer)

Fairness ==
    /\ SF_vars(TimersFire)
    /\ SF_vars(TickOn)
    /\ WF_vars(Reply)

SpecLive == Init /\ [][NextLive]_vars /\ Fairness

-----------------------------------------------------------------------------
(* Completions in flight at once: every completePurchase is called before  *)
(* any order is completed, so a call that ends after a completion was      *)
(* suspended at its ledger query while that completion ran.                *)

NextRace ==
    \/ \E caller \in Sellers, payload \in ProductPayloads : addProduct(caller, payload)
    \/ \E caller \in Buyers, id \in KnownIds : createOrder(caller, id)
    \/ \E call \in CallRecords : persistedOrders = EmptyMap /\ completePurchaseCall(call)
    \/ \E call \in CallRecords : \E response \in LedgerAnswers(call) :
            completePurchaseResume(call, response)
    \/ Reply

SpecRace == Init /\ [][NextRace]_vars

-----------------------------------------------------------------------------
(* Orders and their completion called with any text as product id: the ids *)
(* uuidv4() issued, and a text that is no UUID                              *)

MalformedId == "not-a-uuid"
InputIds == KnownIds \cup {MalformedId}
CallInputs ==
    [caller : Buyers, seller : Principals, id : InputIds, price : Amounts,
     block : BlockNumbers, memo : Tokens]

NextInputs ==
    \/ \E caller \in Sellers, payload \in ProductPayloads : addProduct(caller, payload)
    \/ \E caller \in Buyers, id \in InputIds : createOrder(caller, id)
    \/ \E call \in CallInputs : completePurchaseCall(call)
    \/ \E call \in CallInputs : \E response \in LedgerAnswers(call) :
            completePurchaseResume(call, response)
    \/ Reply

SpecInputs == Init /\ [][NextInputs]_vars

-----------------------------------------------------------------------------
(* The payment check alone, against every answer of the ledger *)

NextLedger ==
    \/ \E caller \in Sellers, payload \in ProductPayloads : addProduct(caller, payload)
    \/ \E caller \in Buyers, id \in KnownIds : createOrder(caller, id)
    \/ \E call \in CallRecords : completePurchaseCall(call)
    \/ \E call \in CallRecords : \E response \in Responses :
            completePurchaseTraced(call, response)
    \/ \E query \in QueryRecords, response \in Responses :
            verifyPaymentTraced(query, response)
    \/ Reply

SpecLedger == Init /\ [][NextLedger]_vars

-----------------------------------------------------------------------------
(* Vocabulary of the properties.  In the step of a handler ret' tells     *)
(* which handler ran, with what arguments and result; the unprimed stores  *)
(* are the state it ran in.                                                *)

IsPending(memo) == memo \in DOMAIN pendingOrders
HasCompleted(memo) == \E p \in DOMAIN persistedOrders : persistedOrders[p].memo = memo
IsListed(id) == id \in DOMAIN productsStorage

SoldAmountOf(catalog, id) == IF id \in DOMAIN catalog THEN catalog[id].soldAmount ELSE 0

\* a completePurchase has just returned or thrown
CompleteEnded == ret.op = "completePurchase"
CompleteSucceeded == CompleteEnded /\ IsOk(ret.result)
TimerRan == ret.op = "timer"

-----------------------------------------------------------------------------
(* C1 *)

\* C1: a completePurchase that names a listed product and the token of a
\* pending order, and whose ledger block holds the matching transfer (caller
\* as sender, seller as receiver, the amount, memo = token), returns the
\* completed order and leaves no pending entry for the token; and a
\* completePurchase succeeds only by consuming a pending entry, so each
\* order written by createOrder is completed at most once.
C1_CreateThenCompleteSucceedsOnce ==
    [][ret'.op = "completePurchase" =>
          /\ (ret'.matching /\ IsPending(ret'.memo) /\ IsListed(ret'.id))
                => /\ IsOk(ret'.result)
                   /\ ret'.result.Ok.status = Completed
                   /\ ret'.result.Ok.memo = ret'.memo
                   /\ ret'.memo \notin DOMAIN pendingOrders'
          /\ IsOk(ret'.result)
                => /\ IsPending(ret'.memo)
                   /\ ret'.memo \notin DOMAIN pendingOrders'
       ]_vars

\* a matching completePurchase has just returned the completed order of a
\* token createOrder had issued, and the token is no longer pending
C1_Witness ==
    /\ CompleteSucceeded
    /\ ret.matching
    /\ ret.result.Ok.status = Completed
    /\ ~IsPending(ret.memo)
    /\ HasCompleted(ret.memo)

-----------------------------------------------------------------------------
(* C2 *)

\* C2: whichever of the timer callback and completePurchase removes the
\* pending entry first wins.  The callback writes nothing but the removal of
\* the entry of its token, and changes nothing when the entry is gone; a
\* completePurchase whose payment verified and whose entry is gone returns
\* NotFound and changes no store; a completePurchase that succeeds found the
\* entry and removed it.  So no entry is both completed and expired.
C2_ExpireOrCompleteNotBoth ==
    [][/\ ret'.op = "timer" =>
            /\ UNCHANGED <<productsStorage, persistedOrders>>
            /\ pendingOrders' = MapRemove(pendingOrders, ret'.memo)
            /\ IsNone(ret'.removed) <=> ~IsPending(ret'.memo)
            /\ IsNone(ret'.removed) => UNCHANGED stores
       /\ (ret'.op = "completePurchase" /\ ret'.paymentVerified /\ ~IsPending(ret'.memo))
            => /\ IsNotFound(ret'.result)
               /\ UNCHANGED stores
       /\ (ret'.op = "completePurchase" /\ IsOk(ret'.result))
            => /\ IsPending(ret'.memo)
               /\ ret'.memo \notin DOMAIN pendingOrders'
               /\ pendingOrders' = MapRemove(pendingOrders, ret'.memo)
      ]_vars

\* the timer callback has just removed a pending entry while a
\* completePurchase call was suspended at its ledger query
C2_Witness ==
    /\ TimerRan
    /\ IsSome(ret.removed)
    /\ ~IsPending(ret.memo)
    /\ calls > 0

-----------------------------------------------------------------------------
(* C3 *)

\* C3 (as stated): a completePurchase that ends, by returning or by
\* throwing, either changes no store or removes the pending entry, writes
\* the completed order and counts the sale.
C3_PromotionAtomic ==
    [][ret'.op = "completePurchase" =>
          \/ UNCHANGED stores
          \/ /\ IsPending(ret'.memo)
             /\ ret'.memo \notin DOMAIN pendingOrders'
             /\ ret'.caller \in DOMAIN persistedOrders'
             /\ persistedOrders'[ret'.caller].memo = ret'.memo
             /\ persistedOrders'[ret'.caller].status = Completed
             /\ SoldAmountOf(productsStorage', ret'.id)
                  = SoldAmountOf(productsStorage, ret'.id) + 1
       ]_vars

-----------------------------------------------------------------------------
(* C4 *)

\* C4 (as stated): the soldAmount of a product never decreases, and it
\* increases only in a step that writes a completed order of that product.
C4_SoldCountOnlyByCompletion ==
    [][\A id \in DOMAIN productsStorage \cap DOMAIN productsStorage' :
          /\ productsStorage'[id].soldAmount >= productsStorage[id].soldAmount
          /\ productsStorage'[id].soldAmount > productsStorage[id].soldAmount
                => /\ ret'.op = "completePurchase"
                   /\ IsOk(ret'.result)
                   /\ ret'.result.Ok.productId = id
       ]_vars

\* a completePurchase has just succeeded for an order of one product while
\* naming another: the product named has a sale counted, the product
\* ordered has none
C4_CountedForAnotherProduct ==
    /\ CompleteSucceeded
    /\ ret.result.Ok.productId # ret.id
    /\ SoldAmountOf(productsStorage, ret.id) = 1
    /\ IsListed(ret.result.Ok.productId)
    /\ SoldAmountOf(productsStorage, ret.result.Ok.productId) = 0

-----------------------------------------------------------------------------
(* C5 *)

\* C5: a completePurchase that succeeds adds exactly 1 to the soldAmount of
\* exactly one product and leaves every other product as it was; a
\* completePurchase that fails, createOrder, verifyPayment, the timer
\* callback and the sending of the ledger query change no product.
C5_SoldCountOncePerCompletedOrder ==
    [][/\ (ret'.op = "completePurchase" /\ IsOk(ret'.result))
            => /\ IsListed(ret'.id)
               /\ DOMAIN productsStorage' = DOMAIN productsStorage
               /\ productsStorage'[ret'.id].soldAmount
                    = productsStorage[ret'.id].soldAmount + 1
               /\ \A id \in DOMAIN productsStorage \ {ret'.id} :
                     productsStorage'[id] = productsStorage[id]
       /\ (ret'.op = "completePurchase" /\ ~IsOk(ret'.result))
            => UNCHANGED productsStorage
       /\ ret'.op \in {"createOrder", "verifyPayment", "timer", "await"}
            => UNCHANGED productsStorage
      ]_vars

\* a completePurchase has just succeeded on a product that had one sale
\* already
C5_Witness ==
    /\ CompleteSucceeded
    /\ IsListed(ret.id)
    /\ productsStorage[ret.id].soldAmount = 2

-----------------------------------------------------------------------------
(* C6 *)

\* C6 (as stated): an order written to persistedOrders is there, unchanged,
\* in every later state.
C6_CompletedStoreAppendOnly ==
    [][\A p \in DOMAIN persistedOrders :
          /\ p \in DOMAIN persistedOrders'
          /\ persistedOrders'[p] = persistedOrders[p]
       ]_vars

-----------------------------------------------------------------------------
(* C7 *)

\* C7: the order a successful completePurchase returns is the one it stores;
\* its status is Completed, its paid_at_block is the block the call was
\* given, and its productId, price, seller and memo are those of the pending
\* order it was made from.
C7_CompletedOrderFields ==
    [][(ret'.op = "completePurchase" /\ IsOk(ret'.result)) =>
          /\ IsPending(ret'.memo)
          /\ LET completed == ret'.result.Ok
                 reservation == pendingOrders[ret'.memo]
             IN  /\ completed.status = Completed
                 /\ completed.paid_at_block = Some(ret'.block)
                 /\ completed.productId = reservation.productId
                 /\ completed.price = reservation.price
                 /\ completed.seller = reservation.seller
                 /\ completed.memo = reservation.memo
                 /\ ret'.caller \in DOMAIN persistedOrders'
                 /\ persistedOrders'[ret'.caller] = completed
       ]_vars

\* a completePurchase given block 42 has just returned and stored a
\* completed order of price 1000 settled at block 42
C7_Witness ==
    /\ CompleteSucceeded
    /\ ret.block = 42
    /\ ret.result.Ok.paid_at_block = Some(42)
    /\ ret.result.Ok.price = 1000
    /\ persistedOrders[ret.caller] = ret.result.Ok

-----------------------------------------------------------------------------
(* C8 *)

\* C8 (as stated, and not counting a thrown error as a departure): once an
\* order with a token has been completed, a completePurchase with that
\* token that is called afterwards, alone, and answered at once does not
\* succeed and changes no store.
C8_SecondCompletionNotFound ==
    [][(/\ ret = Awaiting
        /\ calls = 1
        /\ ret'.op = "completePurchase"
        /\ HasCompleted(ret'.memo))
          => /\ ~IsOk(ret'.result)
             /\ UNCHANGED stores
       ]_vars

-----------------------------------------------------------------------------
(* C9 *)

\* C9 (as stated): a completePurchase that is called, alone, when
\* ORDER_RESERVATION_PERIOD has passed since the pending order of its token
\* was written, and is answered at once, does not succeed and writes no
\* completed order.
C9_NoCompletionAfterWindow ==
    [][(/\ ret = Awaiting
        /\ calls = 1
        /\ ret'.op = "completePurchase"
        /\ ret'.memo \in DOMAIN createdAt
        /\ now >= createdAt[ret'.memo] + ORDER_RESERVATION_PERIOD)
          => /\ ~IsOk(ret'.result)
             /\ UNCHANGED persistedOrders
       ]_vars

-----------------------------------------------------------------------------
(* C10 *)

\* C10: a completePurchase whose payment does not verify changes no store
\* and, unless the ledger query itself threw, returns NotFound; the pending
\* order of its token is therefore still there, and a completePurchase for
\* it with whatever block number and the matching transfer succeeds as long
\* as the order is pending and the product listed.
C10_FailedVerificationKeepsReservation ==
    [][ret'.op = "completePurchase" =>
          /\ ~ret'.paymentVerified
                => /\ UNCHANGED stores
                   /\ ~IsThrown(ret'.result) => IsNotFound(ret'.result)
          /\ (ret'.matching /\ IsPending(ret'.memo) /\ IsListed(ret'.id))
                => /\ ret'.paymentVerified
                   /\ IsOk(ret'.result)
                   /\ ret'.result.Ok.paid_at_block = Some(ret'.block)
       ]_vars

\* a completePurchase given block 42 has just returned NotFound because the
\* payment did not verify, and the order of its token is still pending
C10_Witness ==
    /\ CompleteEnded
    /\ ret.block = 42
    /\ ~ret.paymentVerified
    /\ IsNotFound(ret.result)
    /\ IsPending(ret.memo)
    /\ IsListed(ret.id)

-----------------------------------------------------------------------------
(* C11 *)

\* a verifyPayment has just returned, its arguments and answer on record
VerifyEnded == ret.op = "verifyPayment" /\ "query" \in DOMAIN ret

\* the transfer the arguments of a query describe, as the ledger would hold it
ExactTransfer(query) ==
    Some(Transfer(binaryAddressFromPrincipal(query.caller),
                  binaryAddressFromPrincipal(query.receiver), query.amount))

\* the answer holds one block, whose transfer is exactly the one described
IsExactPayment(query, response) ==
    /\ response.kind = "blocks"
    /\ Len(response.blocks) = 1
    /\ response.blocks[1].memo = query.memo
    /\ response.blocks[1].operation = ExactTransfer(query)

\* C11 (as stated): verifyPayment returns true only when the block holds the
\* transfer with memo = token, the caller's address as source, the
\* receiver's address as destination and exactly the amount; in every other
\* case it returns false.
C11_VerifyExact ==
    (VerifyEnded /\ ret.response # Rejected)
        => (ret.result = TRUE <=> IsExactPayment(ret.query, ret.response))

-----------------------------------------------------------------------------
(* C12 *)

\* C12 (as stated): whenever the ledger does not confirm the payment, a
\* failed or empty or malformed answer included, completePurchase returns
\* NotFound, throws nothing and changes no store.
C12_LedgerFailsClosed ==
    [][(ret'.op = "completePurchase" /\ ~ret'.paymentVerified)
          => /\ IsNotFound(ret'.result)
             /\ UNCHANGED stores
       ]_vars

-----------------------------------------------------------------------------
(* C13 *)

\* C13: createOrder for an id that is not in productsStorage returns
\* NotFound, writes no pending order, arms no timer and leaves the three
\* stores as they were.
C13_CreateOrderUnknownProduct ==
    [][(ret'.op = "createOrder" /\ ~IsListed(ret'.id))
          => /\ IsNotFound(ret'.result)
             /\ UNCHANGED <<stores, timers, timerCount>>
       ]_vars

\* createOrder has just returned NotFound for the id of a product that was
\* listed and then deleted
C13_Witness ==
    /\ ret.op = "createOrder"
    /\ IsNotFound(ret.result)
    /\ ~IsListed(ret.id)
    /\ uuidCount = 1
    /\ timers = EmptyBag

-----------------------------------------------------------------------------
(* C14 *)

\* C14: a createOrder that succeeds returns an order with status
\* PaymentPending, no paid_at_block, the product's id, price and seller as
\* they are in productsStorage, and the token computed from the id, the
\* caller and the time; it writes that order, and nothing else, into
\* pendingOrders under the token; it arms one timer for the token, due
\* ORDER_RESERVATION_PERIOD later; productsStorage and persistedOrders are
\* unchanged.
C14_CreateOrderEffects ==
    [][(ret'.op = "createOrder" /\ IsOk(ret'.result)) =>
          /\ IsListed(ret'.id)
          /\ LET order == ret'.result.Ok
                 product == productsStorage[ret'.id]
             IN  /\ order.status = PaymentPending
                 /\ order.paid_at_block = None
                 /\ order.productId = ret'.id
                 /\ order.price = product.price
                 /\ order.seller = product.seller
                 /\ order.memo = generateCorrelationId(ret'.id, ret'.caller, now)
                 /\ pendingOrders' = MapInsert(pendingOrders, order.memo, order)
                 /\ timers' = timers (+)
                       SetToBag({[memo |-> order.memo,
                                  at |-> now + ORDER_RESERVATION_PERIOD]})
          /\ UNCHANGED <<productsStorage, persistedOrders>>
       ]_vars

\* createOrder has just returned a pending order of price 1000, which is in
\* pendingOrders under its token with its timer armed
C14_Witness ==
    /\ ret.op = "createOrder"
    /\ IsOk(ret.result)
    /\ ret.result.Ok.price = 1000
    /\ IsPending(ret.result.Ok.memo)
    /\ pendingOrders[ret.result.Ok.memo] = ret.result.Ok
    /\ BagIn([memo |-> ret.result.Ok.memo, at |-> now + ORDER_RESERVATION_PERIOD], timers)

-----------------------------------------------------------------------------
(* C15 *)

\* C15: the price of a pending order is, in every state, the price the
\* product had when createOrder wrote the order, whatever updateProduct has
\* made of the product's price since; and the order a successful
\* completePurchase returns and stores carries that same price.
C15_PriceDoesNotDrift ==
    [][/\ \A memo \in DOMAIN pendingOrders' :
             /\ memo \in DOMAIN reservedPrice'
             /\ pendingOrders'[memo].price = reservedPrice'[memo]
       /\ (ret'.op = "completePurchase" /\ IsOk(ret'.result))
             => /\ ret'.memo \in DOMAIN reservedPrice
                /\ ret'.result.Ok.price = reservedPrice[ret'.memo]
                /\ persistedOrders'[ret'.caller].price = reservedPrice[ret'.memo]
      ]_vars

\* a completePurchase has just stored an order whose price is not the price
\* the product has now: the price was changed after the order was created
C15_Witness ==
    /\ CompleteSucceeded
    /\ IsListed(ret.result.Ok.productId)
    /\ productsStorage[ret.result.Ok.productId].price # ret.result.Ok.price
    /\ persistedOrders[ret.caller] = ret.result.Ok

-----------------------------------------------------------------------------
(* C16 *)

\* a text the id of no product can be: uuidv4() never returns it
IsMalformedId(id) == id = MalformedId

\* C16 (as stated): a completePurchase called with a malformed product id
\* returns InvalidPayload and changes no store.
C16_CompletePurchaseValidates ==
    [][(ret'.op = "completePurchase" /\ IsMalformedId(ret'.id))
          => /\ ret'.result = Err(InvalidPayload)
             /\ UNCHANGED stores
       ]_vars

\* a completePurchase called with a malformed product id has gone through
\* the ledger query and the payment check before it ended
C16_MalformedIdReachesLedger ==
    /\ CompleteEnded
    /\ IsMalformedId(ret.id)
    /\ ret.paymentVerified
    /\ ret.result # Err(InvalidPayload)

-----------------------------------------------------------------------------
(* C17 *)

\* C17 (as stated): a createOrder called with a malformed product id
\* returns InvalidPayload, writes no pending order and arms no timer.
C17_CreateOrderValidates ==
    [][(ret'.op = "createOrder" /\ IsMalformedId(ret'.id))
          => /\ ret'.result = Err(InvalidPayload)
             /\ UNCHANGED <<stores, timers>>
       ]_vars

-----------------------------------------------------------------------------
(* C18 *)

\* the arguments of a verifyPayment that probes the payment of a completion
ProbeOf(returned) ==
    [caller |-> returned.caller, receiver |-> returned.seller,
     amount |-> returned.price, block |-> returned.block, memo |-> returned.memo]

\* C18: verifyPayment changes neither a store nor the armed timers, and for
\* the same caller, arguments and ledger answer it returns what the payment
\* check of completePurchase computes (both throw when the ledger call is
\* rejected).
C18_VerifyPaymentIsReadOnlyProbe ==
    [][/\ ret'.op = "verifyPayment" => UNCHANGED <<stores, timers>>
       /\ ret'.op = "completePurchase" =>
             VerifyPaymentResult(ProbeOf(ret'), ret'.response) =
                 (IF ret'.response = Rejected THEN Thrown ELSE ret'.paymentVerified)
      ]_vars

\* a verifyPayment has answered true while an order is pending and its
\* timer armed
C18_Witness ==
    /\ VerifyEnded
    /\ ret.response # Rejected
    /\ ret.result
    /\ IsPending(ret.query.memo)
    /\ timers # EmptyBag

-----------------------------------------------------------------------------
(* C19 *)

\* C19: under fair firing of the armed timers, an order that is pending
\* under a token eventually is pending no more.
C19_PendingEventuallyLeaves ==
    \A memo \in Tokens : IsPending(memo) ~> ~IsPending(memo)

\* the timer of an order created after the start has run at the end of the
\* clock and removed the order
C19_Witness ==
    /\ TimerRan
    /\ IsSome(ret.removed)
    /\ now = ClockEnd

-----------------------------------------------------------------------------
(* C20 *)

\* C20 (as stated): a createOrder leaves every pending order as it is, and
\* the token of the order it writes is the token of no order still pending.
C20_CreateOrderKeepsLiveOrders ==
    [][ret'.op = "createOrder" =>
          /\ \A memo \in DOMAIN pendingOrders :
                /\ memo \in DOMAIN pendingOrders'
                /\ pendingOrders'[memo] = pendingOrders[memo]
          /\ IsOk(ret'.result) => ~IsPending(ret'.result.Ok.memo)
       ]_vars

-----------------------------------------------------------------------------
(* C21 *)

\* C21: the callback of the timer of a token leaves the products and the
\* completed orders as they are and every pending order of another token
\* in place; it removes the order pending under its token, and changes no
\* store when none is.
C21_TimerCallbackFrame ==
    [][ret'.op = "timer" =>
          /\ UNCHANGED <<productsStorage, persistedOrders>>
          /\ DOMAIN pendingOrders' = DOMAIN pendingOrders \ {ret'.memo}
          /\ \A memo \in DOMAIN pendingOrders' : pendingOrders'[memo] = pendingOrders[memo]
          /\ ret'.removed = MapGet(pendingOrders, ret'.memo)
          /\ ~IsPending(ret'.memo) => UNCHANGED stores
       ]_vars

\* a timer has removed the order of its token while the order of another
\* token stays pending and a product is listed
C21_Witness ==
    /\ TimerRan
    /\ IsSome(ret.removed)
    /\ \E memo \in DOMAIN pendingOrders : memo # ret.memo
    /\ productsStorage # EmptyMap

-----------------------------------------------------------------------------
(* C22 *)

\* C22 (as stated): of the completePurchase calls of one token that are in
\* flight at once, each with a verified payment, the calls that end after
\* one of them has completed the order return NotFound and change no store.
C22_OneOfConcurrentCompletions ==
    [][(/\ ret'.op = "completePurchase"
        /\ ret'.paymentVerified
        /\ HasCompleted(ret'.memo))
          => /\ IsNotFound(ret'.result)
             /\ UNCHANGED stores
       ]_vars

\* a call in flight while another completed the order of its token has
\* found nothing pending and returned NotFound
C22_LoserNotFound ==
    /\ CompleteEnded
    /\ ret.paymentVerified
    /\ IsNotFound(ret.result)
    /\ HasCompleted(ret.memo)
    /\ ~IsPending(ret.memo)

-----------------------------------------------------------------------------
(* C23 *)

\* the ledger's answer holds a transfer of the order's price to the order's
\* seller under the order's token
PaysReservedTerms(order, response) ==
    /\ response.kind = "blocks"
    /\ \E i \in 1..Len(response.blocks) :
          LET block == response.blocks[i]
          IN  /\ block.memo = order.memo
              /\ IsSome(block.operation)
              /\ TransferAmount(block.operation.Some) = Some(order.price)
              /\ TransferTo(block.operation.Some) =
                     Bytes(binaryAddressFromPrincipal(order.seller))

\* C23 (as stated): whenever completePurchase succeeds, whatever seller,
\* product id and amount it was called with, the block it verified holds a
\* transfer of the reserved price to the reserved seller under the token.
C23_PaymentBacksReservedTerms ==
    [][(ret'.op = "completePurchase" /\ IsOk(ret'.result))
          => PaysReservedTerms(pendingOrders[ret'.memo], ret'.response)
       ]_vars

\* an order has been completed on a transfer to the buyer's own address
C23_PaidToOneself ==
    /\ CompleteSucceeded
    /\ ret.seller = ret.caller
    /\ ret.result.Ok.seller # ret.caller

-----------------------------------------------------------------------------
(* C24 *)

\* C24 (as stated): a timer callback removes a pending order only when
\* ORDER_RESERVATION_PERIOD has passed since that order was written.
C24_NoEarlyExpiry ==
    [][(ret'.op = "timer" /\ IsSome(ret'.removed))
          => /\ ret'.memo \in DOMAIN createdAt
             /\ now >= createdAt[ret'.memo] + ORDER_RESERVATION_PERIOD
       ]_vars

\* a timer has removed an order whose own timer is not yet due
C24_RemovedAtOnce ==
    /\ TimerRan
    /\ IsSome(ret.removed)
    /\ \E timer \in BagToSet(timers) : timer.memo = ret.memo /\ timer.at > now

-----------------------------------------------------------------------------
(* C25 *)

\* C25: every pending order has status PaymentPending and no block and is
\* stored under its own memo; every completed order has status Completed
\* and a block.
C25_StoreStatus ==
    /\ \A memo \in DOMAIN pendingOrders :
          /\ pendingOrders[memo].status = PaymentPending
          /\ pendingOrders[memo].paid_at_block = None
          /\ pendingOrders[memo].memo = memo
    /\ \A caller \in DOMAIN persistedOrders :
          /\ persistedOrders[caller].status = Completed
          /\ IsSome(persistedOrders[caller].paid_at_block)

\* an order is pending while another has been completed
C25_Witness ==
    /\ pendingOrders # EmptyMap
    /\ persistedOrders # EmptyMap
    /\ Idle

====
